---- MODULE Spec2Model ----
(***************************************************************************)
(* Glyph cache, texture-atlas recovery in the paint cycle, and the tab     *)
(* bookkeeping of the window controller.                                    *)
(*                                                                         *)
(*   src/src/frontend/gui/glyphcache.rs   GlyphKey, GlyphCache             *)
(*   src/src/guicommon/window.rs          TerminalWindow                   *)
(*   src/src/frontend/gui/overlay.rs      start_overlay                    *)
(*                                                                         *)
(* The specifications share the variables:                                 *)
(*   Spec       the paint cycle driving both caches and the atlas          *)
(*   SpecCache  cached_glyph alone, over the whole key universe            *)
(*   SpecImage  cached_image alone, over all image identifiers             *)
(*   SpecTabs   the tab operations of the window controller               *)
(*   SpecResize spawn_tab and resize_surfaces over the window sizes        *)
(*   SpecRetry  paint() against a renderer that may overflow every time    *)
(*   SpecOverlay overlays on worker threads beside the owner thread        *)
(***************************************************************************)
EXTENDS Integers, Sequences, FiniteSets, TLC

VARIABLES
    glyph_cache,   \* GlyphCache.glyph_cache : set of [key, val] entries
    image_cache,   \* GlyphCache.image_cache : set of [key, val] entries
    atlas,         \* GlyphCache.atlas       : the active atlas instance
    call,          \* the last cached_glyph / cached_image call and its result
    loads,         \* per glyph key: successful load_glyph since the last rebuild
    decodes,       \* per image id: successful decode+allocate since the last rebuild
    pc,            \* position of the owner thread inside paint()
    res,           \* paint(): the local `res`, the render result
    paint_ret,     \* what the outermost paint() returned last
    attempt,       \* paint(): number of recursive retries of the running paint
    rebuilds,      \* paint(): atlas rebuilds done by the running paint
    frames,        \* frame targets acquired and not yet finished
    finished,      \* how often the running attempt's frame target was finished
    tabs,          \* Tabs: the ordered tab collection
    active,        \* Tabs: the active index
    window_title,  \* the title last handed to set_window_title
    tabcall,       \* the last tab operation with its arguments and pre-state
    dims,          \* what get_dimensions() returns
    host,          \* the host: tab ids handed out, tabs registered, deregistered
    overlays,      \* the overlays started, each with its worker thread
    events         \* the owner thread's event queue

cache_vars == <<glyph_cache, image_cache, atlas, call, loads, decodes>>
paint_vars == <<pc, res, paint_ret, attempt, rebuilds, frames, finished>>
env_vars   == <<dims, host, overlays, events>>
tab_vars   == <<tabs, active, window_title, tabcall, dims, host, overlays, events>>
vars == <<glyph_cache, image_cache, atlas, call, loads, decodes,
          pc, res, paint_ret, attempt, rebuilds, frames, finished,
          tabs, active, window_title, tabcall, dims, host, overlays, events>>

(***************************************************************************)
(* Bounds of the explored inputs.                                          *)
(***************************************************************************)
MaxStyleAddr == 2        \* addresses of the borrowed &TextStyle arguments
CellHeight == 1          \* metrics.cell_height of the resolved font
MaxImageId == 2          \* ImageData.id() in 0..MaxImageId
InitialAtlasSize == 1    \* the `size` GlyphCache::new is given
MaxCachedGlyphs == 2     \* glyph entries explored per atlas generation
TermLines == 2           \* lines of a tab's terminal
MaxTabs == 3             \* tabs of a window
MaxDelta == 4            \* activate_tab_relative(delta), |delta| <= MaxDelta
MaxTabIds == 4           \* tab ids handed out over the life of a window
MaxRetries == 3          \* overflowing render attempts explored in one paint
MaxOverlays == 1         \* overlays started on a window

\* width of usize and isize
UsizeBits == 64
\* width of u16
U16Bits == 16

StyleVals == {"regular", "bold"}

\* the glyphs asked for: <<font_idx, glyph_pos, style>>, a base glyph and one
\* more for each field, differing from the base in that field alone
GlyphRequests ==
    {<<0, 0, "regular">>, <<1, 0, "regular">>, <<0, 1, "regular">>,
     <<0, 0, "bold">>}
\* the glyphs and images the renderer asks for while painting
PaintGlyphRequests == {<<0, 0, "regular">>}
PaintImageIds == {0}

\* rasterized bitmaps: empty, one cell high, oversize
RasterWidths == {0, 2}
RasterHeights == {0, CellHeight, 2 * CellHeight}
\* decoded images are squares of these sides
ImageSides == {1, 2}

Max(a, b) == IF a >= b THEN a ELSE b

(***************************************************************************)
(* Glyph keys (glyphcache.rs 15-82).  A TextStyle is its value; a borrowed *)
(* &TextStyle carries the address it lives at as well.  The owned key's    *)
(* style lives inside the map entry, address 0.                            *)
(***************************************************************************)
GlyphInfo(q) == [font_idx |-> q[1], glyph_pos |-> q[2]]
StyleRef(q, addr) == [addr |-> addr, val |-> q[3]]
StyleAddrs == 1..MaxStyleAddr

\* let key = BorrowedGlyphKey { font_idx, glyph_pos, style }
BorrowedGlyphKey(info, style) ==
    [font_idx |-> info.font_idx, glyph_pos |-> info.glyph_pos, style |-> style]

\* BorrowedGlyphKey::to_owned: the style is cloned into the owned key
ToOwned(k) ==
    [font_idx |-> k.font_idx, glyph_pos |-> k.glyph_pos,
     style |-> [addr |-> 0, val |-> k.style.val]]

\* the view leaves the style out: every key shows the same one
KeyWithoutStyle(k) ==
    [font_idx |-> k.font_idx, glyph_pos |-> k.glyph_pos,
     style |-> [addr |-> 0, val |-> "regular"]]
\* GlyphKeyTrait::key, for GlyphKey and for BorrowedGlyphKey
Key(k) ==
    [font_idx |-> k.font_idx, glyph_pos |-> k.glyph_pos, style |-> k.style]

\* the styles compared as references: equal when they are the same object
BorrowedEqIdentity(a, b) ==
    /\ a.font_idx = b.font_idx
    /\ a.glyph_pos = b.glyph_pos
    /\ a.style = b.style
\* #[derive(PartialEq)] on BorrowedGlyphKey: field by field, the &TextStyle
\* compared through the reference, by value
BorrowedEq(a, b) ==
    /\ a.font_idx = b.font_idx
    /\ a.glyph_pos = b.glyph_pos
    /\ a.style.val = b.style.val

\* #[derive(Hash)] on BorrowedGlyphKey
BorrowedHash(a) == <<a.font_idx, a.glyph_pos, a.style.val>>

\* impl PartialEq / Hash for dyn GlyphKeyTrait
KeyEq(a, b) == BorrowedEq(Key(a), Key(b))
KeyHash(a) == BorrowedHash(Key(a))

\* HashMap::get and HashMap::insert through the Borrow<dyn GlyphKeyTrait> view
GlyphMapGet(map, k) ==
    {e \in map : KeyHash(e.key) = KeyHash(k) /\ KeyEq(e.key, k)}
GlyphMapInsert(map, k, v) ==
    {e \in map : ~(KeyHash(e.key) = KeyHash(k) /\ KeyEq(e.key, k))}
        \cup {[key |-> k, val |-> v]}

\* HashMap<usize, Sprite<T>>
ImageMapGet(map, id) == {e \in map : e.key = id}
ImageMapInsert(map, id, v) ==
    {e \in map : e.key # id} \cup {[key |-> id, val |-> v]}

\* the value of a key, as the ghost counters index it
KeyValue(k) == <<k.font_idx, k.glyph_pos, k.style.val>>
KeyValues == GlyphRequests

(***************************************************************************)
(* The atlas: a square texture of side `size`; sprites are handed out      *)
(* until the area is used up.  `gen` tells atlas instances apart.          *)
(***************************************************************************)
NewAtlas(gen, size) == [gen |-> gen, size |-> size, used |-> 0]

Fits(a, w, h) == w <= a.size /\ h <= a.size /\ a.used + w * h <= a.size * a.size

\* the size OutOfTextureSpace carries
RequiredSize(a, w, h) == Max(2 * a.size, Max(w, h))

\* atlas.allocate(&im): [ok, sprite, atlas, size]
AtlasAllocate(a, w, h) ==
    IF Fits(a, w, h)
    THEN [ok |-> TRUE,
          sprite |-> [atlas |-> a.gen, left |-> a.used, width |-> w, height |-> h],
          atlas |-> [a EXCEPT !.used = a.used + w * h],
          size |-> 0]
    ELSE [ok |-> FALSE,
          sprite |-> [atlas |-> a.gen, left |-> 0, width |-> 0, height |-> 0],
          atlas |-> a,
          size |-> RequiredSize(a, w, h)]

(***************************************************************************)
(* Errors and results.                                                     *)
(***************************************************************************)
Ok == [kind |-> "ok", size |-> 0]
Err(kind) == [kind |-> kind, size |-> 0]
OutOfTextureSpace(size) == [kind |-> "out_of_texture_space", size |-> size]

NoCall ==
    [op |-> "none", key |-> <<>>, addr |-> 0, outcome |-> "none", err |-> Ok,
     value |-> {}, rasterized |-> FALSE, allocated |-> FALSE,
     width |-> 0, height |-> 0]
\* call.rasterized: the rasterizer (the decoder, for an image) was run
\* call.allocated:  atlas.allocate handed out a sprite

(***************************************************************************)
(* GlyphCache::load_glyph (glyphcache.rs 180-262).  The font collaborator  *)
(* either fails or hands back a bitmap of some width and height.           *)
(***************************************************************************)
\* resolve_font fails, rasterize_glyph fails, or a bitmap comes back
FontOutcomes ==
    {[font |-> FALSE, ok |-> FALSE, width |-> 0, height |-> 0],
     [font |-> TRUE, ok |-> FALSE, width |-> 0, height |-> 0]}
        \cup [font : {TRUE}, ok : {TRUE},
              width : RasterWidths, height : RasterHeights]

\* a scale is the fraction <<num, den>>; 1.0f64 is <<1, 1>>
One == <<1, 1>>
ScaleIsOne(s) == s[1] = s[2]

\* no glyph is taken for oversize
GlyphScaleNever(height) == One
\* if glyph.height > cell_height * 1.5 { cell_height / glyph.height } else { 1.0 }
GlyphScale(height) ==
    IF 2 * height > 3 * CellHeight THEN <<CellHeight, height>> ELSE One

\* Image::scale_by: both sides multiplied by the scale, truncated
ScaleBy(d, s) == (d * s[1]) \div s[2]

\* a fresh Rc<CachedGlyph>: an address no live CachedGlyph has
LiveRcs ==
    {e.val.id : e \in glyph_cache}
        \cup (IF call.op = "cached_glyph" THEN {g.id : g \in call.value} ELSE {})
NewRc == CHOOSE n \in 0..Cardinality(LiveRcs) :
            n \notin LiveRcs /\ \A m \in 0..(n - 1) : m \in LiveRcs

NoGlyph == [id |-> 0, texture |-> {}, scale |-> One]

\* only the width is looked at
IsWhitespaceWidthOnly(w, h) == w = 0
\* if glyph.width == 0 || glyph.height == 0
IsWhitespace(w, h) == w = 0 \/ h = 0

\* [err, glyph, atlas, rasterized, allocated]
LoadGlyph(a, info, style, raster) ==
    IF ~raster.font
    THEN [err |-> Err("font_resolution"), glyph |-> NoGlyph, atlas |-> a,
          rasterized |-> FALSE, allocated |-> FALSE]
    ELSE IF ~raster.ok
    THEN [err |-> Err("rasterization"), glyph |-> NoGlyph, atlas |-> a,
          rasterized |-> TRUE, allocated |-> FALSE]
    ELSE
      LET w == raster.width
          h == raster.height
          scale == GlyphScale(h)
      IN IF IsWhitespace(w, h)
         THEN [err |-> Ok,
               glyph |-> [id |-> NewRc, texture |-> {}, scale |-> scale],
               atlas |-> a, rasterized |-> TRUE, allocated |-> FALSE]
         ELSE
           LET scaled == ~ScaleIsOne(scale)
               imw == IF scaled THEN ScaleBy(w, scale) ELSE w
               imh == IF scaled THEN ScaleBy(h, scale) ELSE h
               stored == IF scaled THEN One ELSE scale
               tex == AtlasAllocate(a, imw, imh)
           IN IF ~tex.ok
              THEN [err |-> OutOfTextureSpace(tex.size), glyph |-> NoGlyph,
                    atlas |-> a, rasterized |-> TRUE, allocated |-> FALSE]
              ELSE [err |-> Ok,
                    glyph |-> [id |-> NewRc, texture |-> {tex.sprite},
                               scale |-> stored],
                    atlas |-> tex.atlas, rasterized |-> TRUE, allocated |-> TRUE]

(***************************************************************************)
(* GlyphCache::cached_glyph (glyphcache.rs 158-176).                       *)
(***************************************************************************)
GlyphCallRecord(key, outcome, err, value, r, raster) ==
    [op |-> "cached_glyph", key |-> KeyValue(key), addr |-> key.style.addr,
     outcome |-> outcome, err |-> err, value |-> value,
     rasterized |-> r.rasterized, allocated |-> r.allocated,
     width |-> IF r.rasterized THEN raster.width ELSE 0,
     height |-> IF r.rasterized THEN raster.height ELSE 0]

NotLoaded == [rasterized |-> FALSE, allocated |-> FALSE]

\* glyph_cache.insert(key.to_owned(), Rc::clone(&glyph)) after a failed load too
CachedGlyphInsertOnError(key, r) ==
    GlyphMapInsert(glyph_cache, ToOwned(key), r.glyph)
\* the map after the miss path: `?` leaves it alone when load_glyph failed
CachedGlyphMiss(key, r) ==
    IF r.err.kind # "ok"
    THEN glyph_cache
    ELSE GlyphMapInsert(glyph_cache, ToOwned(key), r.glyph)

\* if let Some(entry) = self.glyph_cache.get(&key as &dyn GlyphKeyTrait)
CachedGlyphLookup(key) == GlyphMapGet(glyph_cache, key)

CachedGlyph(info, style, raster) ==
    LET key == BorrowedGlyphKey(info, style)
        hit == CachedGlyphLookup(key)
    IN IF hit # {}
       THEN /\ call' = GlyphCallRecord(key, "hit", Ok, {e.val : e \in hit},
                                       NotLoaded, raster)
            /\ UNCHANGED <<glyph_cache, image_cache, atlas, loads, decodes>>
       ELSE LET r == LoadGlyph(atlas, info, style, raster)
            IN /\ Cardinality(glyph_cache) < MaxCachedGlyphs
               /\ glyph_cache' = CachedGlyphMiss(key, r)
               /\ atlas' = r.atlas
               /\ loads' = IF r.err.kind = "ok"
                           THEN [loads EXCEPT ![KeyValue(key)] = @ + 1]
                           ELSE loads
               /\ call' = GlyphCallRecord(
                              key, IF r.err.kind = "ok" THEN "miss" ELSE "err",
                              r.err, IF r.err.kind = "ok" THEN {r.glyph} ELSE {},
                              r, raster)
               /\ UNCHANGED <<image_cache, decodes>>

(***************************************************************************)
(* GlyphCache::cached_image (glyphcache.rs 264-282).  Decoding either      *)
(* fails or yields a square bitmap.                                        *)
(***************************************************************************)
ImageIds == 0..MaxImageId
DecodeOutcomes ==
    {[ok |-> FALSE, side |-> 0]} \cup [ok : {TRUE}, side : ImageSides]

ImageCallRecord(id, outcome, err, value, decoded, allocated, side) ==
    [op |-> "cached_image", key |-> <<id>>, addr |-> 0,
     outcome |-> outcome, err |-> err, value |-> value,
     rasterized |-> decoded, allocated |-> allocated,
     width |-> side, height |-> side]

\* if let Some(sprite) = self.image_cache.get(&image_data.id())
CachedImageLookup(id) == ImageMapGet(image_cache, id)

\* the sprite is stored under a key that ignores the identifier
CachedImageInsertShared(id, sprite) == ImageMapInsert(image_cache, 0, sprite)
\* self.image_cache.insert(image_data.id(), sprite.clone())
CachedImageInsert(id, sprite) == ImageMapInsert(image_cache, id, sprite)

CachedImage(id, decode) ==
    LET hit == CachedImageLookup(id)
    IN IF hit # {}
       THEN /\ call' = ImageCallRecord(id, "hit", Ok, {e.val : e \in hit},
                                       FALSE, FALSE, 0)
            /\ UNCHANGED <<glyph_cache, image_cache, atlas, loads, decodes>>
       ELSE IF ~decode.ok
       THEN /\ call' = ImageCallRecord(id, "err", Err("decode"), {},
                                       TRUE, FALSE, 0)
            /\ UNCHANGED <<glyph_cache, image_cache, atlas, loads, decodes>>
       ELSE LET tex == AtlasAllocate(atlas, decode.side, decode.side)
            IN IF ~tex.ok
               THEN /\ call' = ImageCallRecord(id, "err",
                                   OutOfTextureSpace(tex.size), {},
                                   TRUE, FALSE, decode.side)
                    /\ UNCHANGED <<glyph_cache, image_cache, atlas, loads, decodes>>
               ELSE /\ image_cache' = CachedImageInsert(id, tex.sprite)
                    /\ atlas' = tex.atlas
                    /\ decodes' = [decodes EXCEPT ![id] = @ + 1]
                    /\ call' = ImageCallRecord(id, "miss", Ok, {tex.sprite},
                                               TRUE, TRUE, decode.side)
                    /\ UNCHANGED <<glyph_cache, loads>>

(***************************************************************************)
(* recreate_texture_atlas(size) (declared window.rs 26): the host replaces *)
(* the atlas by a new one of the given size and drops every cache entry    *)
(* that refers to the old one.                                             *)
(***************************************************************************)
NoLoads == [k \in KeyValues |-> 0]
NoDecodes == [i \in ImageIds |-> 0]

\* the image cache is left as it was
RecreateKeepsImageCache(size) ==
    /\ atlas' = NewAtlas(atlas.gen + 1, size)
    /\ glyph_cache' = {}
    /\ image_cache' = image_cache
    /\ loads' = NoLoads
    /\ decodes' = decodes
RecreateTextureAtlas(size) ==
    /\ atlas' = NewAtlas(atlas.gen + 1, size)
    /\ glyph_cache' = {}
    /\ image_cache' = {}
    /\ loads' = NoLoads
    /\ decodes' = NoDecodes

(***************************************************************************)
(* Tabs.  A tab is [tab_id, title, dirty, pty, term]: title and dirty are  *)
(* the title and the set of dirty lines of the tab's terminal, pty and     *)
(* term the <<rows, cols>> of its pty and of its terminal.  The active     *)
(* index counts from 0; Tab(i) is the tab at index i.                      *)
(***************************************************************************)
Lines == 0..(TermLines - 1)
Tab(i) == tabs[i + 1]

\* the title a tab's terminal shows: that of the program running in it
Titles == {"bash", "vim"}
TitleOf(tab_id) == IF tab_id % 2 = 0 THEN "bash" ELSE "vim"

\* Tab::new(terminal, process, pty)
NewTab(id, title, pty, term) ==
    [tab_id |-> id, title |-> title, dirty |-> {}, pty |-> pty, term |-> term]

\* Dimensions { width, height, cell_height, cell_width }
Dimensions(size, cell) ==
    [width |-> size[1], height |-> size[2],
     cell_width |-> cell[1], cell_height |-> cell[2]]

\* window sizes <<width, height>> in pixels and cell sizes <<width, height>>:
\* the largest height a u16 holds is among them
U16Max == 2 ^ U16Bits - 1
WindowSizes == {<<9, 7>>, <<14, 7>>, <<9, U16Max>>}
CellSizes == {<<5, 4>>, <<5, 1>>}
DefaultDims == Dimensions(<<9, 7>>, <<5, 4>>)

\* let rows = (dims.height as usize + 1) / dims.cell_height, and cols alike
Rows(height, d) == (height + 1) \div d.cell_height
Cols(width, d) == (width + 1) \div d.cell_width
\* `as u16`
AsU16(x) == x % (2 ^ U16Bits)

\* the host: the next tab id, the ids given to tab_was_created, and how
\* often each id was given to deregister_tab
NoDeregistered == [id \in 0..(MaxTabIds - 1) |-> 0]
NoHost == [next_id |-> 0, created |-> <<>>, deregistered |-> NoDeregistered]

\* tab.terminal().make_all_lines_dirty() on the active tab
MakeActiveDirty == [tabs EXCEPT ![active + 1].dirty = Lines]

(***************************************************************************)
(* TerminalWindow::paint (window.rs 84-118), one action per step.          *)
(*   idle -> enter -> render -> finish -> match -> idle                    *)
(*                     ^                    |                              *)
(*                     +--- mark_dirty <----+  (out of texture space)      *)
(***************************************************************************)
NoReturn == [kind |-> "none", size |-> 0]

\* paint_if_needed (window.rs 73-82)
PaintIfNeeded ==
    /\ pc = "idle"
    /\ IF Len(tabs) = 0 \/ Tab(active).dirty = {}
       THEN /\ paint_ret' = Ok
            /\ UNCHANGED <<pc, attempt, rebuilds>>
       ELSE /\ pc' = "enter"
            /\ paint_ret' = NoReturn
            /\ attempt' = 0
            /\ rebuilds' = 0
    /\ UNCHANGED <<cache_vars, res, frames, finished, tab_vars>>

\* the host calls paint() itself
Paint ==
    /\ pc = "idle"
    /\ Len(tabs) > 0
    /\ pc' = "enter"
    /\ paint_ret' = NoReturn
    /\ attempt' = 0
    /\ rebuilds' = 0
    /\ UNCHANGED <<cache_vars, res, frames, finished, tab_vars>>

\* let mut target = self.frame();
AcquireFrame ==
    /\ pc = "enter"
    /\ frames' = frames + 1
    /\ finished' = 0
    /\ call' = NoCall
    /\ pc' = "render"
    /\ UNCHANGED <<glyph_cache, image_cache, atlas, loads, decodes,
                   res, paint_ret, attempt, rebuilds, tab_vars>>

\* renderer.paint(&mut target, &mut terminal): the renderer resolves glyphs
\* and images through the cache; the first failing call ends the render
\* with that error
RenderCachedGlyph ==
    \E q \in PaintGlyphRequests, addr \in StyleAddrs, raster \in FontOutcomes :
        /\ pc = "render"
        /\ CachedGlyph(GlyphInfo(q), StyleRef(q, addr), raster)
        /\ IF call'.outcome = "err"
           THEN res' = call'.err /\ pc' = "finish"
           ELSE UNCHANGED <<res, pc>>
        /\ UNCHANGED <<paint_ret, attempt, rebuilds, frames, finished, tab_vars>>

RenderCachedImage ==
    \E id \in PaintImageIds, decode \in DecodeOutcomes :
        /\ pc = "render"
        /\ CachedImage(id, decode)
        /\ IF call'.outcome = "err"
           THEN res' = call'.err /\ pc' = "finish"
           ELSE UNCHANGED <<res, pc>>
        /\ UNCHANGED <<paint_ret, attempt, rebuilds, frames, finished, tab_vars>>

\* the render went through: the terminal's lines are clean
RenderOk ==
    /\ pc = "render"
    /\ res' = Ok
    /\ tabs' = [tabs EXCEPT ![active + 1].dirty = {}]
    /\ pc' = "finish"
    /\ UNCHANGED <<cache_vars, paint_ret, attempt, rebuilds, frames, finished,
                   active, window_title, tabcall, env_vars>>

\* the render failed for a reason of its own
RenderFail ==
    /\ pc = "render"
    /\ res' = Err("render")
    /\ pc' = "finish"
    /\ UNCHANGED <<cache_vars, paint_ret, attempt, rebuilds, frames, finished,
                   tab_vars>>

\* target.finish().expect(..) before the result is looked at
FinishSkippedOnError ==
    /\ pc = "finish"
    /\ frames' = IF res.kind = "ok" THEN frames - 1 ELSE frames
    /\ finished' = IF res.kind = "ok" THEN finished + 1 ELSE finished
    /\ pc' = "match"
    /\ UNCHANGED <<cache_vars, res, paint_ret, attempt, rebuilds, tab_vars>>
FinishFrame ==
    /\ pc = "finish"
    /\ frames' = frames - 1
    /\ finished' = finished + 1
    /\ pc' = "match"
    /\ UNCHANGED <<cache_vars, res, paint_ret, attempt, rebuilds, tab_vars>>

\* target.finish() failed: expect() panics, the frame is consumed all the same
FinishPanic ==
    /\ pc = "finish"
    /\ frames' = frames - 1
    /\ finished' = finished + 1
    /\ pc' = "panicked"
    /\ UNCHANGED <<cache_vars, res, paint_ret, attempt, rebuilds, tab_vars>>

\* Ok(_) => Ok(())
ReturnOk ==
    /\ pc = "match"
    /\ res.kind = "ok"
    /\ paint_ret' = Ok
    /\ pc' = "idle"
    /\ UNCHANGED <<cache_vars, res, attempt, rebuilds, frames, finished, tab_vars>>

\* err.downcast_ref::<OutOfTextureSpace>()
IsAnyError(e) == e.kind # "ok"
IsOutOfTextureSpace(e) == e.kind = "out_of_texture_space"

\* Err(err) => Err(err), any error but OutOfTextureSpace
ReturnErr ==
    /\ pc = "match"
    /\ res.kind # "ok"
    /\ ~IsOutOfTextureSpace(res)
    /\ paint_ret' = res
    /\ pc' = "idle"
    /\ UNCHANGED <<cache_vars, res, attempt, rebuilds, frames, finished, tab_vars>>

\* the size recreate_texture_atlas is called with
RecreateSizeHalved(e) == e.size \div 2
RecreateSize(e) == e.size

\* self.recreate_texture_atlas(size)?
Recreate ==
    /\ pc = "match"
    /\ res.kind # "ok"
    /\ IsOutOfTextureSpace(res)
    /\ RecreateTextureAtlas(RecreateSize(res))
    /\ call' = NoCall
    /\ rebuilds' = rebuilds + 1
    /\ pc' = "mark_dirty"
    /\ UNCHANGED <<res, paint_ret, attempt, frames, finished, tab_vars>>

\* recreate_texture_atlas failed: `?` returns its error
RecreateFail ==
    /\ pc = "match"
    /\ res.kind # "ok"
    /\ IsOutOfTextureSpace(res)
    /\ paint_ret' = Err("recreate")
    /\ pc' = "idle"
    /\ UNCHANGED <<cache_vars, res, attempt, rebuilds, frames, finished, tab_vars>>

\* the retry is given up after the first one
MarkDirtyGivesUp ==
    /\ pc = "mark_dirty"
    /\ tabs' = MakeActiveDirty
    /\ IF attempt >= 1
       THEN pc' = "idle" /\ paint_ret' = Err("retries") /\ UNCHANGED attempt
       ELSE pc' = "enter" /\ attempt' = attempt + 1 /\ UNCHANGED paint_ret
    /\ UNCHANGED <<cache_vars, res, rebuilds, frames, finished,
                   active, window_title, tabcall, env_vars>>
\* get_active().unwrap().terminal().make_all_lines_dirty(); return self.paint()
MarkDirty ==
    /\ pc = "mark_dirty"
    /\ tabs' = MakeActiveDirty
    /\ attempt' = attempt + 1
    /\ pc' = "enter"
    /\ UNCHANGED <<cache_vars, res, paint_ret, rebuilds, frames, finished,
                   active, window_title, tabcall, env_vars>>

\* the active tab's terminal receives output between two paints
TerminalOutput ==
    \E l \in Lines :
        /\ pc = "idle"
        /\ Len(tabs) > 0
        /\ l \notin Tab(active).dirty
        /\ tabs' = [tabs EXCEPT ![active + 1].dirty = @ \cup {l}]
        /\ UNCHANGED <<cache_vars, paint_vars, active, window_title, tabcall,
                       env_vars>>

(***************************************************************************)
(* Spec: the paint cycle of a window with two tabs, the second one active. *)
(***************************************************************************)
InitCache ==
    /\ glyph_cache = {}
    /\ image_cache = {}
    /\ atlas = NewAtlas(0, InitialAtlasSize)
    /\ call = NoCall
    /\ loads = NoLoads
    /\ decodes = NoDecodes

InitPaint ==
    /\ pc = "idle"
    /\ res = Ok
    /\ paint_ret = NoReturn
    /\ attempt = 0
    /\ rebuilds = 0
    /\ frames = 0
    /\ finished = 0

NoTabCall ==
    [op |-> "none", arg |-> 0, active |-> 0, len |-> 0,
     err |-> "ok", id |-> 0, flag |-> FALSE, polled |-> <<>>]

\* two tabs spawned at the default dimensions, the second one active
TwoTabs ==
    LET size == <<Rows(DefaultDims.height, DefaultDims),
                  Cols(DefaultDims.width, DefaultDims)>>
    IN /\ tabs = <<NewTab(0, TitleOf(0), size, size),
                   [NewTab(1, TitleOf(1), size, size) EXCEPT !.dirty = Lines]>>
       /\ active = 1
       /\ window_title = "[2/2] vim"
       /\ tabcall = NoTabCall
       /\ dims = DefaultDims
       /\ host = [next_id |-> 2, created |-> <<0, 1>>,
                  deregistered |-> NoDeregistered]

NoOverlays ==
    /\ overlays = <<>>
    /\ events = <<>>

Init ==
    /\ InitCache
    /\ InitPaint
    /\ TwoTabs
    /\ NoOverlays

Next ==
    \/ PaintIfNeeded
    \/ Paint
    \/ AcquireFrame
    \/ RenderCachedGlyph
    \/ RenderCachedImage
    \/ RenderOk
    \/ RenderFail
    \/ FinishFrame
    \/ FinishPanic
    \/ ReturnOk
    \/ ReturnErr
    \/ Recreate
    \/ RecreateFail
    \/ MarkDirty
    \/ TerminalOutput

Spec == Init /\ [][Next]_vars

(***************************************************************************)
(* SpecCache: cached_glyph alone, over all of GlyphRequests; SpecImage:    *)
(* cached_image alone, over all of ImageIds.  A caller that gets           *)
(* OutOfTextureSpace answers it the way paint() does, with                 *)
(* recreate_texture_atlas at the size the error names.                     *)
(***************************************************************************)
CacheGlyphCall ==
    \E q \in GlyphRequests, addr \in StyleAddrs, raster \in FontOutcomes :
        /\ call.err.kind # "out_of_texture_space"
        /\ CachedGlyph(GlyphInfo(q), StyleRef(q, addr), raster)
        /\ UNCHANGED <<paint_vars, tab_vars>>

CacheImageCall ==
    \E id \in ImageIds, decode \in DecodeOutcomes :
        /\ call.err.kind # "out_of_texture_space"
        /\ CachedImage(id, decode)
        /\ UNCHANGED <<paint_vars, tab_vars>>

CacheRebuild ==
    /\ call.err.kind = "out_of_texture_space"
    /\ RecreateTextureAtlas(RecreateSize(call.err))
    /\ call' = NoCall
    /\ UNCHANGED <<paint_vars, tab_vars>>

NoTabs ==
    /\ tabs = <<>>
    /\ active = 0
    /\ window_title = ""
    /\ tabcall = NoTabCall
    /\ dims = DefaultDims
    /\ host = NoHost
    /\ NoOverlays

SpecCacheInit == InitCache /\ InitPaint /\ NoTabs
SpecCacheNext == CacheGlyphCall \/ CacheRebuild
SpecCache == SpecCacheInit /\ [][SpecCacheNext]_vars

SpecImageNext == CacheImageCall \/ CacheRebuild
SpecImage == SpecCacheInit /\ [][SpecImageNext]_vars

(***************************************************************************)
(* The tab operations (window.rs 35-71, 120-205).  An operation runs on    *)
(* the owner thread between two paints; tabcall records the last one with  *)
(* what it was given and what it returned.                                 *)
(***************************************************************************)

\* the index is shown as it is kept, counting from 0
UpdateTitleZeroBased(ts, act, old) ==
    LET num_tabs == Len(ts)
    IN IF num_tabs = 0 THEN old
       ELSE IF num_tabs = 1 THEN ts[act + 1].title
       ELSE "[" \o ToString(act) \o "/" \o ToString(num_tabs) \o "] "
                \o ts[act + 1].title
\* update_title: the title handed to set_window_title; `old` stays when
\* there is no tab
UpdateTitle(ts, act, old) ==
    LET num_tabs == Len(ts)
    IN IF num_tabs = 0 THEN old
       ELSE IF num_tabs = 1 THEN ts[act + 1].title
       ELSE "[" \o ToString(act + 1) \o "/" \o ToString(num_tabs) \o "] "
                \o ts[act + 1].title

\* 2^n mod m
RECURSIVE Pow2Mod(_, _)
Pow2Mod(n, m) == IF n = 0 THEN 1 % m ELSE (2 * Pow2Mod(n - 1, m)) % m

\* (x as usize) % m for an isize x: a negative x is x + 2^UsizeBits as usize
AsUsizeMod(x, m) ==
    IF x >= 0 THEN x % m ELSE (Pow2Mod(UsizeBits, m) + (x % m)) % m

\* activate_tab_relative: the index handed to activate_tab
\*   let tab = active + delta;
\*   let tab = if tab < 0 { max as isize + tab } else { tab };
\*   tab as usize % max
RelativeIndex(act, delta, max) ==
    LET tab == act + delta
        wrapped == IF tab < 0 THEN max + tab ELSE tab
    IN AsUsizeMod(wrapped, max)

\* the index is taken as it comes
ActivateTabUnchecked(ts, act, title, tab_idx) ==
    [active |-> tab_idx,
     window_title |-> IF tab_idx < Len(ts) THEN UpdateTitle(ts, tab_idx, title)
                      ELSE title]
\* activate_tab(tab_idx) on the collection ts: the active index and the
\* window title it leaves
ActivateTabOn(ts, act, title, tab_idx) ==
    IF tab_idx < Len(ts)
    THEN [active |-> tab_idx, window_title |-> UpdateTitle(ts, tab_idx, title)]
    ELSE [active |-> act, window_title |-> title]

\* activate_tab(tab_idx)
ActivateTab(tab_idx) ==
    LET r == ActivateTabOn(tabs, active, window_title, tab_idx)
    IN /\ active' = r.active
       /\ window_title' = r.window_title
       /\ UNCHANGED tabs

TabCall(op, arg) ==
    [op |-> op, arg |-> arg, active |-> active, len |-> Len(tabs),
     err |-> "ok", id |-> 0, flag |-> FALSE, polled |-> <<>>]

TabsActivate ==
    \E tab_idx \in 0..MaxTabs :
        /\ pc = "idle"
        /\ ActivateTab(tab_idx)
        /\ tabcall' = TabCall("activate_tab", tab_idx)
        /\ UNCHANGED <<cache_vars, paint_vars, env_vars>>

\* activate_tab_relative(delta); `% max` panics when there is no tab
TabsActivateRelative ==
    \E delta \in (-MaxDelta)..MaxDelta :
        /\ pc = "idle"
        /\ tabcall' = TabCall("activate_tab_relative", delta)
        /\ IF Len(tabs) = 0
           THEN pc' = "panicked" /\ UNCHANGED <<tabs, active, window_title>>
           ELSE /\ ActivateTab(RelativeIndex(active, delta, Len(tabs)))
                /\ UNCHANGED pc
        /\ UNCHANGED <<cache_vars, res, paint_ret, attempt, rebuilds, frames,
                       finished, env_vars>>

\* the host calls update_title()
TabsUpdateTitle ==
    /\ pc = "idle"
    /\ window_title' = UpdateTitle(tabs, active, window_title)
    /\ tabcall' = TabCall("update_title", 0)
    /\ UNCHANGED <<cache_vars, paint_vars, tabs, active, env_vars>>

(***************************************************************************)
(* spawn_tab (window.rs 120-151).  openpty, build_prog and spawn_command   *)
(* may fail before the tab exists, tab_was_created after it was pushed     *)
(* and activated.                                                          *)
(***************************************************************************)
SpawnOutcomes == {"ok", "openpty", "build_prog", "spawn_command", "tab_was_created"}

\* the window [tabs, active, window_title, host] the operations work on
Window == [tabs |-> tabs, active |-> active, window_title |-> window_title,
           host |-> host]
SetWindow(w) ==
    /\ tabs' = w.tabs
    /\ active' = w.active
    /\ window_title' = w.window_title
    /\ host' = w.host

\* [window, err, id]: the window spawn_tab leaves and what it returns
SpawnTab(w, d, outcome) ==
    LET rows == Rows(d.height, d)
        cols == Cols(d.width, d)
    IN IF outcome \in {"openpty", "build_prog", "spawn_command"}
       THEN [window |-> w, err |-> outcome, id |-> 0]
       ELSE
         LET tab_id == w.host.next_id
             \* openpty(rows as u16, cols as u16, ..); Terminal::new(rows, cols, ..)
             tab == NewTab(tab_id, TitleOf(tab_id), <<AsU16(rows), AsU16(cols)>>,
                           <<rows, cols>>)
             pushed == Append(w.tabs, tab)
             act == ActivateTabOn(pushed, w.active, w.window_title,
                                  Len(pushed) - 1)
             after == [tabs |-> pushed, active |-> act.active,
                       window_title |-> act.window_title,
                       host |-> [w.host EXCEPT !.next_id = @ + 1,
                                               !.created = Append(@, tab_id)]]
         IN IF outcome = "tab_was_created"
            THEN [window |-> after, err |-> outcome, id |-> 0]
            ELSE [window |-> after, err |-> "ok", id |-> tab_id]

TabsSpawn ==
    \E outcome \in SpawnOutcomes :
        /\ pc = "idle"
        /\ Len(tabs) < MaxTabs
        /\ host.next_id < MaxTabIds
        /\ LET r == SpawnTab(Window, dims, outcome)
           IN /\ SetWindow(r.window)
              /\ tabcall' = [TabCall("spawn_tab", 0) EXCEPT
                                !.err = r.err, !.id = r.id]
        /\ UNCHANGED <<cache_vars, paint_vars, dims, overlays, events>>

(***************************************************************************)
(* resize_surfaces (window.rs 153-178).  advise_renderer_of_resize makes   *)
(* the new size the current one; a tab's pty.resize may fail and leaves    *)
(* that pty as it was.                                                     *)
(***************************************************************************)
\* for tab in tabs.iter() { tab.pty().resize(rows, cols, ..)?; tab.terminal().resize(..) }
\* with the pty of the tab at index fail_at failing (none when fail_at = len)
ResizeTabs(ts, rows, cols, fail_at) ==
    [i \in 1..Len(ts) |->
        IF i - 1 < fail_at
        THEN [ts[i] EXCEPT !.pty = <<rows, cols>>, !.term = <<rows, cols>>]
        ELSE ts[i]]

\* [tabs, dims, err, flag, advised]
ResizeSurfaces(ts, d, width, height, advise_ok, fail_at) ==
    IF width # d.width \/ height # d.height
    THEN IF ~advise_ok
         THEN [tabs |-> ts, dims |-> d, err |-> "advise", flag |-> FALSE,
               advised |-> TRUE]
         ELSE
           LET rows == AsU16(Rows(height, d))
               cols == AsU16(Cols(width, d))
           IN [tabs |-> ResizeTabs(ts, rows, cols, fail_at),
               dims |-> [d EXCEPT !.width = width, !.height = height],
               err |-> IF fail_at < Len(ts) THEN "pty_resize" ELSE "ok",
               flag |-> fail_at >= Len(ts),
               advised |-> TRUE]
    ELSE [tabs |-> ts, dims |-> d, err |-> "ok", flag |-> FALSE,
          advised |-> FALSE]

\* tabcall.polled of a resize: whether the renderer was advised
TabsResize ==
    \E size \in WindowSizes, advise_ok \in BOOLEAN, fail_at \in 0..MaxTabs :
        /\ pc = "idle"
        /\ fail_at <= Len(tabs)
        /\ LET r == ResizeSurfaces(tabs, dims, size[1], size[2], advise_ok, fail_at)
           IN /\ tabs' = r.tabs
              /\ dims' = r.dims
              /\ tabcall' = [TabCall("resize_surfaces", size) EXCEPT
                                !.err = r.err, !.flag = r.flag,
                                !.polled = <<r.advised>>]
        /\ UNCHANGED <<cache_vars, paint_vars, active, window_title, host,
                       overlays, events>>

(***************************************************************************)
(* tab_did_terminate and test_for_child_exit (window.rs 180-205).          *)
(* Tabs::remove_by_id takes the tab out and keeps the active index inside  *)
(* the collection.                                                         *)
(***************************************************************************)
RemoveById(ts, id) == SelectSeq(ts, LAMBDA t : t.tab_id # id)
ActiveAfterRemove(ts, act) ==
    IF Len(ts) = 0 THEN 0 ELSE IF act < Len(ts) THEN act ELSE Len(ts) - 1

\* tab_did_terminate(tab_id) on the window w
TabDidTerminate(w, tab_id) ==
    LET ts == RemoveById(w.tabs, tab_id)
        act == ActiveAfterRemove(ts, w.active)
        dirtied == IF Len(ts) > 0 THEN [ts EXCEPT ![act + 1].dirty = Lines]
                   ELSE ts
    IN [tabs |-> dirtied, active |-> act,
        window_title |-> UpdateTitle(dirtied, act, w.window_title),
        host |-> [w.host EXCEPT !.deregistered[tab_id] = @ + 1]]

\* the host calls tab_did_terminate for a tab it handed out
TabsTerminate ==
    \E tab_id \in 0..(MaxTabIds - 1) :
        /\ pc = "idle"
        /\ tab_id < host.next_id
        /\ host.deregistered[tab_id] = 0
        /\ SetWindow(TabDidTerminate(Window, tab_id))
        /\ tabcall' = TabCall("tab_did_terminate", tab_id)
        /\ UNCHANGED <<cache_vars, paint_vars, dims, overlays, events>>

\* what try_wait finds: the child is running, Ok(None); it has exited,
\* Ok(Some(status)); or the poll itself fails, Err(_), on a running child
PollOutcomes ==
    {[exited |-> FALSE, err |-> FALSE], [exited |-> TRUE, err |-> FALSE],
     [exited |-> FALSE, err |-> TRUE]}

\* a poll error is taken for a child that is still running
TryWaitDeadUnlessError(p) == p.exited /\ ~p.err
\* match tab.process().try_wait() { Ok(None) => None, _ => Some(tab.tab_id()) }
TryWaitDead(p) == p.err \/ p.exited

\* dead_tabs: the ids of the tabs polled dead, in the order of the tabs
DeadTabs(ts, polled) ==
    LET dead == SelectSeq([i \in 1..Len(ts) |-> i],
                          LAMBDA i : TryWaitDead(polled[i]))
    IN [k \in 1..Len(dead) |-> ts[dead[k]].tab_id]

\* for tab_id in dead_tabs { self.tab_did_terminate(tab_id); }
RECURSIVE TerminateAll(_, _)
TerminateAll(w, ids) ==
    IF Len(ids) = 0 THEN w
    ELSE TerminateAll(TabDidTerminate(w, ids[1]),
                      [k \in 1..(Len(ids) - 1) |-> ids[k + 1]])

TabsTestForChildExit ==
    \E polled \in [1..Len(tabs) -> PollOutcomes] :
        /\ pc = "idle"
        /\ LET w == TerminateAll(Window, DeadTabs(tabs, polled))
           IN /\ SetWindow(w)
              /\ tabcall' = [TabCall("test_for_child_exit", 0) EXCEPT
                                !.flag = (Len(w.tabs) = 0), !.polled = polled]
        /\ UNCHANGED <<cache_vars, paint_vars, dims, overlays, events>>

(***************************************************************************)
(* SpecTabs: a window with 1..MaxTabs tabs, any of them active, at the     *)
(* default dimensions.                                                     *)
(***************************************************************************)
SpecTabsInit ==
    /\ InitCache
    /\ InitPaint
    /\ NoOverlays
    /\ dims = DefaultDims
    /\ \E n \in 1..MaxTabs :
        /\ LET size == <<Rows(dims.height, dims), Cols(dims.width, dims)>>
           IN tabs = [i \in 1..n |-> NewTab(i - 1, TitleOf(i - 1), size, size)]
        /\ host = [next_id |-> n, created |-> [i \in 1..n |-> i - 1],
                   deregistered |-> NoDeregistered]
    /\ active \in 0..(Len(tabs) - 1)
    /\ window_title = UpdateTitle(tabs, active, "")
    /\ tabcall = NoTabCall

SpecTabsNext ==
    \/ TabsActivate
    \/ TabsActivateRelative
    \/ TabsUpdateTitle
    \/ TabsSpawn
    \/ TabsTerminate
    \/ TabsTestForChildExit
SpecTabs == SpecTabsInit /\ [][SpecTabsNext]_vars

(***************************************************************************)
(* SpecResize: a window that starts without tabs, at any of the window     *)
(* and cell sizes; tabs are spawned and the window is resized.             *)
(***************************************************************************)
SpecResizeInit ==
    /\ InitCache
    /\ InitPaint
    /\ NoOverlays
    /\ tabs = <<>>
    /\ active = 0
    /\ window_title = ""
    /\ tabcall = NoTabCall
    /\ host = NoHost
    /\ \E size \in WindowSizes, cell \in CellSizes : dims = Dimensions(size, cell)

SpecResizeNext == TabsSpawn \/ TabsResize
SpecResize == SpecResizeInit /\ [][SpecResizeNext]_vars

(***************************************************************************)
(* SpecRetry: paint() against a renderer that may run out of texture       *)
(* space on every attempt, whatever the size of the atlas.                 *)
(***************************************************************************)
\* renderer.paint fails with OutOfTextureSpace, asking for twice the atlas
RenderOverflow ==
    /\ pc = "render"
    /\ atlas.gen < MaxRetries
    /\ res' = OutOfTextureSpace(RequiredSize(atlas, 0, 0))
    /\ pc' = "finish"
    /\ UNCHANGED <<cache_vars, paint_ret, attempt, rebuilds, frames, finished,
                   tab_vars>>

SpecRetryNext ==
    \/ Paint
    \/ PaintIfNeeded
    \/ AcquireFrame
    \/ RenderOverflow
    \/ RenderOk
    \/ RenderFail
    \/ FinishFrame
    \/ FinishPanic
    \/ ReturnOk
    \/ ReturnErr
    \/ Recreate
    \/ RecreateFail
    \/ MarkDirty
    \/ TerminalOutput
SpecRetry == Init /\ [][SpecRetryNext]_vars

(***************************************************************************)
(* start_overlay (overlay.rs 11-36).  An overlay is                        *)
(*   [tab_id, size, worker, res, future, sent, pseudo_tab]:                *)
(* the id of the tab it was started for, the size of its virtual terminal, *)
(* where its worker thread stands, what func returned, what the future     *)
(* holds, the tab ids the worker gave to schedule_cancel_overlay, and      *)
(* whether the pseudo-tab handed back is still shown over the tab.         *)
(*   worker: running -> returned -> scheduled -> resolved                  *)
(*           running -> panicked                                           *)
(***************************************************************************)
FuncResults == {"ok", "err"}

\* the overlay start_overlay hands back for the tab at index i
NewOverlay(i) ==
    [tab_id |-> Tab(i).tab_id, size |-> Tab(i).term, worker |-> "running",
     res |-> "none", future |-> "pending", sent |-> <<>>,
     pseudo_tab |-> "shown"]

\* the owner thread waits for func before it returns
StartOverlayBlocking ==
    \E i \in 0..(MaxTabs - 1) :
        /\ pc = "idle"
        /\ i < Len(tabs)
        /\ Len(overlays) < MaxOverlays
        /\ overlays' = Append(overlays, NewOverlay(i))
        /\ pc' = "blocked"
        /\ tabcall' = TabCall("start_overlay", i)
        /\ UNCHANGED <<cache_vars, res, paint_ret, attempt, rebuilds, frames,
                       finished, tabs, active, window_title, dims, host, events>>
\* start_overlay(term_window, tab, func) on the owner thread: the worker
\* thread is spawned and the pseudo-tab and the future are handed back
StartOverlay ==
    \E i \in 0..(MaxTabs - 1) :
        /\ pc = "idle"
        /\ i < Len(tabs)
        /\ Len(overlays) < MaxOverlays
        /\ overlays' = Append(overlays, NewOverlay(i))
        /\ tabcall' = TabCall("start_overlay", i)
        /\ UNCHANGED <<cache_vars, paint_vars, tabs, active, window_title,
                       dims, host, events>>

\* worker thread: let res = func(tab_id, tw_term);
OverlayFuncReturns ==
    \E o \in 1..MaxOverlays, r \in FuncResults :
        /\ o <= Len(overlays)
        /\ overlays[o].worker = "running"
        /\ overlays' = [overlays EXCEPT ![o].worker = "returned", ![o].res = r]
        /\ UNCHANGED <<cache_vars, paint_vars, tabs, active, window_title,
                       tabcall, dims, host, events>>

\* worker thread: func panics and the thread ends there
OverlayFuncPanics ==
    \E o \in 1..MaxOverlays :
        /\ o <= Len(overlays)
        /\ overlays[o].worker = "running"
        /\ overlays' = [overlays EXCEPT ![o].worker = "panicked"]
        /\ UNCHANGED <<cache_vars, paint_vars, tabs, active, window_title,
                       tabcall, dims, host, events>>

\* the message schedule_cancel_overlay(window, tab_id) puts on the queue
CancelOverlay(tab_id) == [kind |-> "cancel_overlay", tab_id |-> tab_id]

\* worker thread: TermWindow::schedule_cancel_overlay(window, tab_id);
OverlayScheduleCancel ==
    \E o \in 1..MaxOverlays :
        /\ o <= Len(overlays)
        /\ overlays[o].worker = "returned"
        /\ events' = Append(events, CancelOverlay(overlays[o].tab_id))
        /\ overlays' = [overlays EXCEPT
                            ![o].worker = "scheduled",
                            ![o].sent = Append(@, overlays[o].tab_id)]
        /\ UNCHANGED <<cache_vars, paint_vars, tabs, active, window_title,
                       tabcall, dims, host>>

\* the closure's value is there as soon as func has returned
OverlayResolveEarly ==
    \E o \in 1..MaxOverlays :
        /\ o <= Len(overlays)
        /\ overlays[o].worker = "returned"
        /\ overlays[o].future = "pending"
        /\ overlays' = [overlays EXCEPT ![o].future = overlays[o].res]
        /\ UNCHANGED <<cache_vars, paint_vars, tabs, active, window_title,
                       tabcall, dims, host, events>>
\* worker thread: the closure ends with `res`, the future resolves with it
OverlayResolve ==
    \E o \in 1..MaxOverlays :
        /\ o <= Len(overlays)
        /\ overlays[o].worker = "scheduled"
        /\ overlays' = [overlays EXCEPT ![o].worker = "resolved",
                                        ![o].future = overlays[o].res]
        /\ UNCHANGED <<cache_vars, paint_vars, tabs, active, window_title,
                       tabcall, dims, host, events>>

\* owner thread: the cancel-overlay notification is taken off the queue and
\* the pseudo-tab of that tab is removed
ProcessCancelOverlay ==
    /\ pc = "idle"
    /\ Len(events) > 0
    /\ events' = Tail(events)
    /\ overlays' = [o \in 1..Len(overlays) |->
                        IF overlays[o].tab_id = Head(events).tab_id
                        THEN [overlays[o] EXCEPT !.pseudo_tab = "removed"]
                        ELSE overlays[o]]
    /\ tabcall' = TabCall("cancel_overlay", Head(events).tab_id)
    /\ UNCHANGED <<cache_vars, paint_vars, tabs, active, window_title,
                   dims, host>>

(***************************************************************************)
(* SpecOverlay: the owner thread paints, activates tabs and resizes while  *)
(* overlays run on their worker threads.                                   *)
(***************************************************************************)
SpecOverlayNext ==
    \/ StartOverlay
    \/ OverlayFuncReturns
    \/ OverlayFuncPanics
    \/ OverlayScheduleCancel
    \/ OverlayResolve
    \/ ProcessCancelOverlay
    \/ TabsActivate
    \/ Paint
    \/ AcquireFrame
    \/ RenderOk
    \/ FinishFrame
    \/ ReturnOk
SpecOverlay == Init /\ [][SpecOverlayNext]_vars

(***************************************************************************)
(* Properties of the paint cycle, checked under Spec.                      *)
(***************************************************************************)
GlyphSprites == UNION {e.val.texture : e \in glyph_cache}
ImageSprites == {e.val : e \in image_cache}
ReturnedSprites ==
    IF call.op = "cached_glyph" THEN UNION {g.texture : g \in call.value}
    ELSE IF call.op = "cached_image" THEN call.value
    ELSE {}

\* C1: every sprite a cache entry holds, and every sprite a cache call hands
\* back, was allocated from the atlas instance that is active now.
C1_SpritesOfActiveAtlas ==
    /\ \A t \in GlyphSprites : t.atlas = atlas.gen
    /\ \A t \in ImageSprites : t.atlas = atlas.gen
    /\ \A t \in ReturnedSprites : t.atlas = atlas.gen

\* after a rebuild both caches hold sprites again, all of the new atlas
C1_Witness ==
    /\ atlas.gen > 0
    /\ GlyphSprites # {}
    /\ ImageSprites # {}

OverflowAtMatch == pc = "match" /\ res.kind = "out_of_texture_space"

\* C2 as stated: a render that failed with OutOfTextureSpace{S} is always
\* followed by the rebuild at size >= S, then the dirty marking, then a new
\* attempt.
C2_AlwaysRebuilds ==
    [][OverflowAtMatch => (pc' = "mark_dirty" /\ atlas'.size >= res.size)]_vars

\* C2, amended: unless recreate_texture_atlas fails (paint then returns that
\* error at once), the overflow is followed by the rebuild at size >= S with
\* the lines untouched, then by marking every line of the active tab dirty
\* with the new atlas untouched, then by a new attempt; and a retried attempt
\* whose render succeeds makes paint return success.
C2_OverflowRecovery ==
    [][/\ OverflowAtMatch =>
            \/ /\ pc' = "mark_dirty"
               /\ atlas'.gen # atlas.gen
               /\ atlas'.size >= res.size
               /\ glyph_cache' = {} /\ image_cache' = {}
               /\ tabs' = tabs
               /\ attempt' = attempt
            \/ /\ pc' = "idle"
               /\ paint_ret' = Err("recreate")
               /\ atlas' = atlas /\ tabs' = tabs
       /\ pc = "mark_dirty" =>
            /\ pc' = "enter"
            /\ tabs'[active + 1].dirty = Lines
            /\ atlas' = atlas
            /\ attempt' = attempt + 1
       /\ pc = "enter" => pc' = "render" /\ frames' = frames + 1
       /\ (pc = "match" /\ res.kind = "ok" /\ attempt > 0) =>
            pc' = "idle" /\ paint_ret' = Ok
      ]_vars

\* a paint that rebuilt the atlas, retried and returned success
C2_Witness ==
    /\ pc = "idle"
    /\ paint_ret = Ok
    /\ attempt > 0
    /\ rebuilds > 0
    /\ atlas.gen > 0

OtherErrorAtMatch ==
    pc = "match" /\ res.kind \notin {"ok", "out_of_texture_space"}

\* C3: a render error other than OutOfTextureSpace is returned as it is;
\* from the failed render to the return the atlas, the caches and the
\* terminals' dirty lines stay as they are and no new attempt starts.
C3_OtherErrorsPropagate ==
    [][/\ OtherErrorAtMatch =>
            /\ pc' = "idle"
            /\ paint_ret' = res
            /\ atlas' = atlas
            /\ glyph_cache' = glyph_cache /\ image_cache' = image_cache
            /\ tabs' = tabs
            /\ attempt' = attempt /\ rebuilds' = rebuilds
       /\ (pc = "finish" /\ res.kind \notin {"ok", "out_of_texture_space"}) =>
            /\ atlas' = atlas
            /\ tabs' = tabs
            /\ attempt' = attempt /\ rebuilds' = rebuilds
      ]_vars

\* paint returned a rasterization error of the render
C3_Witness ==
    /\ pc = "idle"
    /\ paint_ret.kind = "rasterization"
    /\ res = paint_ret

\* C4: the frame target of an attempt is open while the attempt renders and
\* until it is finished, it has been finished exactly once when the attempt
\* looks at the render result, rebuilds, retries or returns, and never is
\* more than one frame target open.
C4_FrameFinishedOnce ==
    /\ frames \in {0, 1}
    /\ pc \in {"render", "finish"} => (frames = 1 /\ finished = 0)
    /\ pc \in {"match", "mark_dirty", "panicked"} => (frames = 0 /\ finished = 1)
    /\ pc \in {"idle", "enter"} => (frames = 0 /\ finished <= 1)
    /\ (pc = "idle" /\ paint_ret.kind # "none") =>
            (finished = 1 \/ (attempt = 0 /\ paint_ret = Ok))

\* the second overflow of one paint: its frame is finished before the rebuild
C4_Witness ==
    /\ pc = "match"
    /\ res.kind = "out_of_texture_space"
    /\ attempt >= 1
    /\ frames = 0
    /\ finished = 1

(***************************************************************************)
(* Properties of the caches.                                               *)
(***************************************************************************)
GlyphCallStep == call' # call /\ call'.op = "cached_glyph"
ImageCallStep == call' # call /\ call'.op = "cached_image"
GlyphEntries(kv) == {e \in glyph_cache : KeyValue(e.key) = kv}
ImageEntries(id) == {e \in image_cache : e.key = id}
Rebuilt == atlas'.gen # atlas.gen

C5_State ==
    /\ \A kv \in KeyValues : loads[kv] <= 1
    /\ (call.op = "cached_glyph" /\ call.outcome = "hit") =>
            /\ ~call.rasterized
            /\ ~call.allocated
            /\ call.value = {e.val : e \in GlyphEntries(call.key)}
            /\ Cardinality(call.value) = 1

\* C5 (SpecCache): between two rebuilds load_glyph succeeds at most once per
\* key; a call for a key that has an entry, whatever the address of its
\* style, returns that entry's CachedGlyph, runs no rasterizer, leaves the
\* atlas and the map as they are; and an entry stays as inserted until the
\* next rebuild.
C5_Memoized ==
    [][/\ C5_State /\ C5_State'
       /\ (GlyphCallStep /\ GlyphEntries(call'.key) # {}) =>
            /\ call'.outcome = "hit"
            /\ atlas' = atlas
            /\ glyph_cache' = glyph_cache
       /\ \A e \in glyph_cache : e \in glyph_cache' \/ (Rebuilt /\ glyph_cache' = {})
      ]_vars

\* a textured glyph is handed out again from the cache
C5_Witness ==
    /\ call.op = "cached_glyph"
    /\ call.outcome = "hit"
    /\ loads[call.key] = 1
    /\ \E g \in call.value : g.texture # {}
    /\ Cardinality(glyph_cache) = 2

C6_State ==
    /\ \A e1, e2 \in glyph_cache :
            e1 # e2 => (KeyValue(e1.key) # KeyValue(e2.key) /\ e1.val.id # e2.val.id)
    /\ (call.op = "cached_glyph" /\ call.outcome = "hit") =>
            \A g \in call.value :
                \E e \in glyph_cache : e.val = g /\ KeyValue(e.key) = call.key

\* C6 (SpecCache): a hit returns the value of an entry whose three key fields
\* equal the request's; a request whose key has no entry is no hit, and when
\* it succeeds it has been rasterized and is stored as one more entry under
\* its own key, with a CachedGlyph of its own.
C6_KeysDoNotAlias ==
    [][/\ C6_State /\ C6_State'
       /\ (GlyphCallStep /\ GlyphEntries(call'.key) = {}) =>
            /\ call'.outcome \in {"miss", "err"}
            /\ call'.outcome = "miss" =>
                /\ call'.rasterized
                /\ \E e \in glyph_cache' \ glyph_cache :
                        /\ KeyValue(e.key) = call'.key
                        /\ call'.value = {e.val}
                        /\ glyph_cache' = glyph_cache \cup {e}
                        /\ \A o \in glyph_cache : o.val.id # e.val.id
      ]_vars

\* two entries whose keys differ in the style alone
C6_Witness ==
    \E e1, e2 \in glyph_cache :
        /\ e1.key.font_idx = e2.key.font_idx
        /\ e1.key.glyph_pos = e2.key.glyph_pos
        /\ e1.key.style.val # e2.key.style.val
        /\ e1.val.id # e2.val.id
        /\ call.outcome = "miss"

FailedCallStep == call' # call /\ call'.outcome = "err"
CallKeyAbsent(c, glyphs, images) ==
    IF c.op = "cached_glyph"
    THEN {e \in glyphs : KeyValue(e.key) = c.key} = {}
    ELSE {e \in images : <<e.key>> = c.key} = {}

\* C7 (Spec): a cached_glyph or cached_image call that fails leaves both
\* maps as they were, without an entry for its key; and a call for a key
\* without an entry never answers from the cache: it runs the font lookup
\* and the rasterizer, or the decoder, again.
C7_FailureLeavesCaches ==
    [][/\ FailedCallStep =>
            /\ glyph_cache' = glyph_cache
            /\ image_cache' = image_cache
            /\ CallKeyAbsent(call', glyph_cache', image_cache')
       /\ ((GlyphCallStep \/ ImageCallStep)
                /\ CallKeyAbsent(call', glyph_cache, image_cache)) =>
            /\ call'.outcome \in {"miss", "err"}
            /\ call'.rasterized \/ call'.err.kind = "font_resolution"
      ]_vars

\* the rasterizer failed while the image cache holds an entry
C7_Witness ==
    /\ call.op = "cached_glyph"
    /\ call.outcome = "err"
    /\ call.err.kind = "rasterization"
    /\ image_cache # {}
    /\ glyph_cache = {}

CallIsWhitespace(c) == c.width = 0 \/ c.height = 0

C8_State ==
    /\ (call.op = "cached_glyph" /\ call.outcome = "miss") =>
            /\ \A g \in call.value : (g.texture = {}) <=> CallIsWhitespace(call)
            /\ \A e \in GlyphEntries(call.key) : e.val \in call.value
            /\ CallIsWhitespace(call) => ~call.allocated
    /\ (call.op = "cached_glyph" /\ call.rasterized /\ call.err.kind # "rasterization"
            /\ CallIsWhitespace(call)) =>
            call.outcome = "miss"

\* C8 (SpecCache): the record stored for a rasterized glyph has no texture
\* exactly when the bitmap's width or height is 0; such a glyph is stored
\* without touching the atlas and never fails with OutOfTextureSpace.
C8_WhitespaceHasNoTexture ==
    [][/\ C8_State /\ C8_State'
       /\ (GlyphCallStep /\ call'.rasterized /\ call'.err.kind # "rasterization"
                /\ CallIsWhitespace(call')) =>
            atlas' = atlas
      ]_vars

\* a glyph of height 0 and width 2 was stored while the atlas is full
C8_Witness ==
    /\ call.op = "cached_glyph"
    /\ call.outcome = "miss"
    /\ call.width > 0
    /\ call.height = 0
    /\ \A g \in call.value : g.texture = {}
    /\ atlas.used = atlas.size * atlas.size

C9_State ==
    /\ \A id \in ImageIds : decodes[id] <= 1
    /\ \A e1, e2 \in image_cache :
            e1 # e2 => (e1.key # e2.key /\ e1.val # e2.val)
    /\ (call.op = "cached_image" /\ call.outcome = "hit") =>
            /\ ~call.rasterized
            /\ ~call.allocated
            /\ call.value = {e.val : e \in ImageEntries(call.key[1])}
            /\ Cardinality(call.value) = 1

\* C9 (SpecImage): between two rebuilds an identifier is decoded and
\* allocated at most once; a call for an identifier that has an entry
\* returns that entry's sprite without decoding and leaves atlas and map
\* alone; an identifier without an entry is decoded on its own and gets a
\* sprite no other entry holds; the map has one entry per identifier and an
\* entry stays as inserted until the next rebuild.
C9_ImagesMemoized ==
    [][/\ C9_State /\ C9_State'
       /\ (ImageCallStep /\ ImageEntries(call'.key[1]) # {}) =>
            /\ call'.outcome = "hit"
            /\ atlas' = atlas
            /\ image_cache' = image_cache
       /\ (ImageCallStep /\ ImageEntries(call'.key[1]) = {}) =>
            /\ call'.outcome \in {"miss", "err"}
            /\ call'.rasterized
            /\ call'.outcome = "miss" =>
                /\ call'.allocated
                /\ \A e \in image_cache : e.val \notin call'.value
       /\ \A e \in image_cache : e \in image_cache' \/ (Rebuilt /\ image_cache' = {})
      ]_vars

\* a second identifier is cached and one of the two is asked for again
C9_Witness ==
    /\ call.op = "cached_image"
    /\ call.outcome = "hit"
    /\ Cardinality(image_cache) >= 2
    /\ decodes[call.key[1]] = 1

(***************************************************************************)
(* Properties of the tab operations, checked under SpecTabs.               *)
(***************************************************************************)
\* C10: after activate_tab_relative(delta) on a window with len >= 1 tabs the
\* active index is (active + delta) mod len, a number in 0..len-1.
C10_RelativeIsModular ==
    (tabcall.op = "activate_tab_relative" /\ tabcall.len >= 1) =>
        /\ active = (tabcall.active + tabcall.arg) % tabcall.len
        /\ active \in 0..(tabcall.len - 1)

TabIds(ts) == {ts[i].tab_id : i \in 1..Len(ts)}
ActiveInRange(ts, act) == Len(ts) > 0 => act \in 0..(Len(ts) - 1)

\* C11 (SpecTabs): through spawn_tab, activate_tab, activate_tab_relative,
\* tab_did_terminate and test_for_child_exit the active index of a window
\* with tabs is one of 0..length-1, and activate_tab(i) with i >= length
\* leaves the active index, the window title and the tabs as they are.
C11_ActiveInRange ==
    [][/\ ActiveInRange(tabs, active)
       /\ ActiveInRange(tabs', active')
       /\ (tabcall'.op = "activate_tab" /\ tabcall'.arg >= Len(tabs)) =>
            /\ active' = active
            /\ window_title' = window_title
            /\ tabs' = tabs
      ]_vars

\* activate_tab beyond the end, on a window that lost a tab and has the
\* last of several tabs active
C11_Witness ==
    /\ tabcall.op = "activate_tab"
    /\ tabcall.arg >= tabcall.len
    /\ Len(tabs) >= 2
    /\ active = Len(tabs) - 1
    /\ \E id \in DOMAIN host.deregistered : host.deregistered[id] > 0

\* C12 as stated (SpecTabs): a spawn_tab that returns an error leaves the
\* tabs and the active index as they were; one that returns a tab id has
\* appended exactly one tab with that id, made it the active one and given
\* the id to tab_was_created once.
C12_SpawnAllOrNothing ==
    [][tabcall'.op = "spawn_tab" =>
            IF tabcall'.err # "ok"
            THEN tabs' = tabs /\ active' = active
            ELSE /\ Len(tabs') = Len(tabs) + 1
                 /\ \A i \in 1..Len(tabs) : tabs'[i] = tabs[i]
                 /\ tabs'[Len(tabs')].tab_id = tabcall'.id
                 /\ tabcall'.id \notin TabIds(tabs)
                 /\ active' = Len(tabs') - 1
                 /\ host'.created = Append(host.created, tabcall'.id)
      ]_vars

\* the rows and columns the claim names for a window of the given size
ClaimedSize(width, height, d) == <<Rows(height, d), Cols(width, d)>>

\* C13 as stated (SpecResize): resize_surfaces with the current size returns
\* false, touches no tab and does not advise the renderer; with another
\* size and no pty failure it returns true and every tab's pty and terminal
\* are at rows = (h + 1) div cell_height, cols = (w + 1) div cell_width.
C13_ResizeExact ==
    [][tabcall'.op = "resize_surfaces" =>
            LET w == tabcall'.arg[1]
                h == tabcall'.arg[2]
            IN IF w = dims.width /\ h = dims.height
               THEN /\ tabcall'.err = "ok" /\ ~tabcall'.flag
                    /\ tabs' = tabs
                    /\ tabcall'.polled = <<FALSE>>
               ELSE tabcall'.err # "pty_resize" =>
                    /\ tabcall'.err = "ok" /\ tabcall'.flag
                    /\ \A i \in 1..Len(tabs') :
                            /\ tabs'[i].pty = ClaimedSize(w, h, dims)
                            /\ tabs'[i].term = ClaimedSize(w, h, dims)
      ]_vars

\* the tabs of ts polled as p, by index
PolledIds(ts, polled, P(_)) == {ts[i].tab_id : i \in {j \in 1..Len(ts) : P(polled[j])}}
HasExited(p) == p.exited
NotStillRunning(p) == p.exited \/ p.err

\* what test_for_child_exit does with the tabs named in `gone`
ChildExitRemoves(gone) ==
    /\ TabIds(tabs') = TabIds(tabs) \ gone
    /\ Len(tabs') = Cardinality(TabIds(tabs'))
    /\ \A i, j \in 1..Len(tabs') :
            i < j => \E a, b \in 1..Len(tabs) :
                        /\ a < b
                        /\ tabs[a].tab_id = tabs'[i].tab_id
                        /\ tabs[b].tab_id = tabs'[j].tab_id
    /\ \A id \in DOMAIN host.deregistered :
            host'.deregistered[id] =
                host.deregistered[id] + (IF id \in gone THEN 1 ELSE 0)
    /\ tabcall'.flag <=> (Len(tabs') = 0)

\* C14 as stated (SpecTabs): test_for_child_exit removes exactly the tabs
\* whose child has exited, deregisters each of them once, and returns true
\* exactly when no tab is left.
C14_RemovesExactlyExited ==
    [][tabcall'.op = "test_for_child_exit" =>
            ChildExitRemoves(PolledIds(tabs, tabcall'.polled, HasExited))
      ]_vars

\* C14, amended: test_for_child_exit removes exactly the tabs whose try_wait
\* returns anything but Ok(None): those whose child has exited and those
\* whose poll fails, whether or not the child still runs; each of them is
\* deregistered once, the other tabs stay in their order, and the result is
\* true exactly when no tab is left.
C14_RemovesAllButRunning ==
    [][tabcall'.op = "test_for_child_exit" =>
            ChildExitRemoves(PolledIds(tabs, tabcall'.polled, NotStillRunning))
      ]_vars

\* of three tabs one had exited, one could not be polled and one runs on
C14_Witness ==
    /\ tabcall.op = "test_for_child_exit"
    /\ tabcall.len = 3
    /\ \E i, j, k \in 1..3 :
            /\ tabcall.polled[i].exited
            /\ tabcall.polled[j].err
            /\ ~NotStillRunning(tabcall.polled[k])
    /\ Len(tabs) = 1
    /\ ~tabcall.flag

(***************************************************************************)
(* Properties of the overlays, checked under SpecOverlay.                  *)
(***************************************************************************)
Overlays == 1..Len(overlays)
WorkerMoved(o) == o <= Len(overlays) /\ overlays'[o].worker # overlays[o].worker
PseudoTabs(ovs) == [o \in 1..Len(ovs) |-> ovs[o].pseudo_tab]
OwnerSide ==
    <<tabs, active, window_title, dims, host, glyph_cache, image_cache, atlas,
      pc, tabcall, PseudoTabs(overlays)>>

C15_State ==
    \A o \in Overlays :
        LET ov == overlays[o]
        IN /\ ov.worker \in {"running", "panicked"} =>
                ov.sent = <<>> /\ ov.future = "pending" /\ ov.res = "none"
           /\ ov.worker = "returned" =>
                ov.sent = <<>> /\ ov.future = "pending" /\ ov.res \in FuncResults
           /\ ov.worker = "scheduled" =>
                ov.sent = <<ov.tab_id>> /\ ov.future = "pending"
                    /\ ov.res \in FuncResults
           /\ ov.worker = "resolved" =>
                ov.sent = <<ov.tab_id>> /\ ov.future = ov.res
                    /\ ov.res \in FuncResults

\* C15 (SpecOverlay): the worker of an overlay schedules nothing while func
\* runs; once func has returned, with a value or an error, it schedules one
\* cancel-overlay notification, tagged with the id of the tab start_overlay
\* was given, and only then the future resolves, with what func returned.
\* The owner's queue grows by such a notification and by nothing else.
C15_CancelAfterReturn ==
    [][/\ C15_State /\ C15_State'
       /\ tabcall'.op = "start_overlay" /\ Len(overlays') > Len(overlays) =>
            overlays'[Len(overlays')].tab_id = tabs[tabcall'.arg + 1].tab_id
       /\ \A o \in Overlays : overlays'[o].tab_id = overlays[o].tab_id
       /\ events' # events =>
            \/ Len(events) > 0 /\ events' = Tail(events)
            \/ \E o \in Overlays :
                    /\ overlays[o].worker = "returned"
                    /\ overlays'[o].worker = "scheduled"
                    /\ events' = Append(events, CancelOverlay(overlays[o].tab_id))
      ]_vars

\* func returned an error, the notification is queued and the future holds
\* the error
C15_Witness ==
    \E o \in Overlays :
        /\ overlays[o].worker = "resolved"
        /\ overlays[o].res = "err"
        /\ overlays[o].future = "err"
        /\ overlays[o].sent = <<overlays[o].tab_id>>
        /\ events = <<CancelOverlay(overlays[o].tab_id)>>

\* C16 (SpecOverlay): start_overlay leaves the owner thread at rest with the
\* worker running and the future pending; whatever the workers do, an owner
\* at rest can activate a tab, resize and paint; a step of a worker changes
\* nothing of the tabs, the title, the dimensions, the caches, the atlas or
\* the pseudo-tabs, and puts at most its one notification on the queue; a
\* pseudo-tab is removed only by the owner thread taking that tab's
\* notification off its queue.
C16_WorkerApart ==
    [][/\ pc = "idle" =>
            (ENABLED TabsActivate /\ ENABLED TabsResize /\ ENABLED Paint)
       /\ tabcall'.op = "start_overlay" /\ Len(overlays') > Len(overlays) =>
            /\ pc' = "idle"
            /\ overlays'[Len(overlays')].worker = "running"
            /\ overlays'[Len(overlays')].future = "pending"
            /\ UNCHANGED <<tabs, active, window_title, dims, host,
                           glyph_cache, image_cache, atlas, events>>
       /\ \A o \in Overlays :
            /\ WorkerMoved(o) =>
                /\ OwnerSide' = OwnerSide
                /\ \/ events' = events
                   \/ /\ events' = Append(events, CancelOverlay(overlays[o].tab_id))
                      /\ overlays[o].sent = <<>>
            /\ overlays'[o].pseudo_tab # overlays[o].pseudo_tab =>
                /\ pc = "idle" /\ pc' = "idle"
                /\ Len(events) > 0
                /\ Head(events) = CancelOverlay(overlays[o].tab_id)
                /\ events' = Tail(events)
                /\ overlays'[o].worker = overlays[o].worker
      ]_vars

\* while func is still running the owner has activated the other tab and is
\* in the middle of a paint
C16_Witness ==
    /\ Len(overlays) >= 1
    /\ overlays[1].worker = "running"
    /\ tabcall.op = "activate_tab"
    /\ active # tabcall.active
    /\ pc = "render"

(***************************************************************************)
(* Further properties of the tab operations, the glyph cache and paint().  *)
(***************************************************************************)
\* C17 (SpecTabs): update_title leaves the window title alone when there is
\* no tab; with one tab the title is that tab's terminal title; with
\* count > 1 tabs and active index a it is "[<a+1>/<count>] <title of the
\* active tab>".
C17_TitleFormat ==
    [][tabcall'.op = "update_title" =>
            /\ tabs' = tabs /\ active' = active
            /\ Len(tabs) = 0 => window_title' = window_title
            /\ Len(tabs) = 1 => window_title' = tabs[1].title
            /\ Len(tabs) > 1 =>
                window_title' =
                    "[" \o ToString(active + 1) \o "/" \o ToString(Len(tabs))
                        \o "] " \o tabs[active + 1].title
      ]_vars

\* tabs "bash" and "vim", the second active: "[2/2] vim"
C17_Witness ==
    /\ tabcall.op = "update_title"
    /\ Len(tabs) = 2
    /\ tabs[1].title = "bash" /\ tabs[2].title = "vim"
    /\ active = 1
    /\ window_title = "[2/2] vim"

Oversize(height) == 2 * height > 3 * CellHeight

\* C18 (SpecCache): a glyph load_glyph allocates has, when its rasterized
\* height is above 1.5 x cell height, a sprite of height <= cell height, and
\* otherwise a sprite of the bitmap's own width and height; in both cases
\* the CachedGlyph stored for it has scale 1.0.
C18_OversizeScaledDown ==
    /\ (call.op = "cached_glyph" /\ call.outcome = "miss" /\ call.allocated) =>
            \A g \in call.value :
                /\ g.texture # {}
                /\ g.scale = One
                /\ \E e \in glyph_cache : e.val = g
                /\ \A t \in g.texture :
                    IF Oversize(call.height)
                    THEN t.height <= CellHeight
                    ELSE t.height = call.height /\ t.width = call.width
    /\ \A e \in glyph_cache : e.val.texture # {} => e.val.scale = One

\* a bitmap twice the cell height went into the atlas one cell high
C18_Witness ==
    /\ call.op = "cached_glyph"
    /\ call.outcome = "miss"
    /\ call.allocated
    /\ call.height = 2 * CellHeight
    /\ \A g \in call.value :
            g.scale = One /\ \A t \in g.texture : t.height = CellHeight

\* render attempts of the running paint(): one for each invocation, the
\* outermost and the `attempt` recursive ones
RenderAttempts == attempt + 1

\* C19 (SpecRetry): paint() returns only at the match on a render result:
\* success when the render succeeded, the render's error when it is no
\* overflow, the rebuild's error when the rebuild failed; after an overflow
\* and a rebuild it always retries, however many retries there have been;
\* a paint that returns success after k overflows has done k rebuilds and
\* k + 1 render attempts.
C19_NoRetryCap ==
    [][/\ (pc # "idle" /\ pc' = "idle") =>
            /\ pc = "match"
            /\ \/ res.kind = "ok" /\ paint_ret' = Ok
               \/ res.kind \notin {"ok", "out_of_texture_space"} /\ paint_ret' = res
               \/ res.kind = "out_of_texture_space" /\ paint_ret' = Err("recreate")
            /\ rebuilds' = attempt /\ attempt' = attempt
       /\ pc = "mark_dirty" => (pc' = "enter" /\ attempt' = attempt + 1)
       /\ (pc = "match" /\ res.kind = "out_of_texture_space") =>
            \/ pc' = "mark_dirty" /\ rebuilds' = rebuilds + 1
            \/ pc' = "idle" /\ paint_ret' = Err("recreate")
       /\ pc \in {"enter", "render", "finish", "match"} => rebuilds = attempt
       /\ pc = "mark_dirty" => rebuilds = attempt + 1
       /\ (pc = "match" /\ res.kind = "ok" /\ pc' = "idle") =>
            /\ rebuilds' = attempt
            /\ RenderAttempts' = rebuilds' + 1
      ]_vars

\* a paint that overflowed MaxRetries times in a row and then succeeded
C19_Witness ==
    /\ pc = "idle"
    /\ paint_ret = Ok
    /\ rebuilds = MaxRetries
    /\ RenderAttempts = MaxRetries + 1

\* C20 as stated (SpecResize): after spawn_tab and resize_surfaces calls,
\* failed ones included, every tab's pty is at the rows and columns of its
\* terminal; a resize_surfaces that fails at a tab's pty leaves the tabs
\* before it at the new size and that tab and the later ones as they were.
C20_PtyMatchesTerminal ==
    [][/\ \A i \in 1..Len(tabs') : tabs'[i].pty = tabs'[i].term
       /\ (tabcall'.op = "resize_surfaces" /\ tabcall'.err = "pty_resize") =>
            \E k \in 1..Len(tabs) :
                /\ \A i \in 1..(k - 1) :
                        /\ tabs'[i].pty = <<AsU16(Rows(tabcall'.arg[2], dims)),
                                            AsU16(Cols(tabcall'.arg[1], dims))>>
                        /\ tabs'[i].term = tabs'[i].pty
                /\ \A i \in k..Len(tabs) : tabs'[i] = tabs[i]
      ]_vars

====
